---------------------------- MODULE Spec2Model ----------------------------
(***************************************************************************)
(* Parameter generation of the tensor-backed dual transforms in            *)
(* albumentations/pytorch/augmentations/dual/transforms.py.                *)
(*                                                                         *)
(* Every transform computes its parameters in one call; a call is modelled *)
(* as a small state machine whose program counter pc walks through the     *)
(* statements of the method.  Each transform has its own specification     *)
(* (SpecPad, ...) over the transform's own variables; the variables of the *)
(* other transforms stay at their idle values.                             *)
(***************************************************************************)
EXTENDS Integers, Sequences, FiniteSets, TLC

VARIABLES
    pc,           \* position inside the method that is running
    rows, cols,   \* PadIfNeededTorch.update_params: params["rows"], params["cols"]
    min_height, min_width,                    \* PadIfNeededTorch fields
    pad_top, pad_bottom, pad_left, pad_right, \* PadIfNeededTorch: the params it adds
    height, width,    \* params["image"].shape[-2:]
    draws,            \* how many random numbers the running call has drawn
    n, m,             \* RandomGridShuffleTorch.grid
    seed,             \* the value random.randint(0, 10000) gave to np.random.RandomState
    height_split, width_split,   \* the two np.linspace results
    new_index_matrix, \* cell -> cell, permuted group by group
    todo,             \* the rows of np.unique(tiles_sizes) the loop has still to visit
    visited,          \* the rows it has visited, in order
    calls,            \* lengths of the arrays random_state.permutation has shuffled so far
    mt,               \* what the seeded generators have returned: <<seed, call lengths>> -> permutation
    tiles,            \* the returned table, <<>> while there is none
    run,              \* 1 in the first call, 2 in a repeated call
    first,            \* seed, visiting order and tiles of the first call, kept for the comparison
    params_mask,      \* CropNonEmptyMaskIfExistsTorch: params["mask"], (channel, y, x) -> value
    mask_ndim,        \* its rank, 2 or 3 (a rank-2 mask is held as one channel)
    mask_height, mask_width,      \* mask.shape[-2:]
    mask,             \* the local mask, after the ignored values and channels are removed
    self_height, self_width,      \* the configured crop size
    ignore_values, ignore_channels,   \* None or Some(list)
    y, x,             \* the sampled non-zero pixel, -1 when none was sampled
    x_min, x_max, y_min, y_max,   \* the returned rectangle, -1 while there is none
    scale, ratio,     \* RandomResizedCropTorch: the configured ranges, in quarters
    attempt,          \* how many sampling attempts were rejected
    rrc_w, rrc_h,     \* the locals w and h
    rrc_i, rrc_j,     \* the locals i and j, the pixel offsets of the crop
    crop_height, crop_width, h_start, w_start,  \* the returned params, h_start and
                      \* w_start as <<numerator, denominator>>; -1 and <<>> while there are none
    bboxes,           \* RandomSizedBBoxSafeCropTorch: len(params["bboxes"])
    erosion_rate,     \* self.erosion_rate, in units of 1/CoordDen
    union,            \* what union_of_bboxes returned, <<x, y, x2, y2>> in units of 1/CoordDen
    bbox,             \* the locals <<bx, by, bx2, by2>>, in units of 1/(CoordDen * DrawDen)
    decorator,        \* utils.py: "on_4d_image" or "on_3d_image", the decorator of the called function
    dec_dtype,        \* the dtype argument of on_4d_image, "None" when it is not given
    img,              \* the tensor the decorated function is called with, [shape, dtype]
    called_with,      \* the tensor handed to the wrapped function, <<>> before the call
    func_out,         \* the tensor the wrapped function returned
    result,           \* the tensor the decorated call returned
    shapes,           \* gpu_benchmark: the shapes argument
    iterations_arg,   \* the iterations argument, an int or a list
    iterations,       \* the local list made of it, <<>> before it is made
    results           \* the results list, one record per benchmarked shape

padVars == <<rows, cols, min_height, min_width, pad_top, pad_bottom, pad_left, pad_right>>

imageVars == <<height, width, draws>>

gridVars == <<n, m, seed, height_split, width_split, new_index_matrix, todo, visited,
              calls, mt, tiles, run, first>>

cropVars == <<params_mask, mask_ndim, mask_height, mask_width, mask, self_height,
              self_width, ignore_values, ignore_channels, y, x, x_min, x_max, y_min, y_max>>

rrcVars == <<scale, ratio, attempt, rrc_w, rrc_h, rrc_i, rrc_j>>

outVars == <<crop_height, crop_width, h_start, w_start>>

bboxVars == <<bboxes, erosion_rate, union, bbox>>

decVars == <<decorator, dec_dtype, img, called_with, func_out, result>>

benchVars == <<shapes, iterations_arg, iterations, results>>

vars == <<pc, padVars, imageVars, gridVars, cropVars, rrcVars, outVars, bboxVars,
          decVars, benchVars>>

\* An optional list: Python's None, or a list.
None == [is_none |-> TRUE, list |-> <<>>]

Some(l) == [is_none |-> FALSE, list |-> l]

Max(a, b) == IF a >= b THEN a ELSE b

Min(a, b) == IF a <= b THEN a ELSE b

(***************************************************************************)
(* PadIfNeededTorch.update_params                                          *)
(***************************************************************************)
\* Largest image side and largest configured minimum side in the model.
MaxSide == 5

MaxMinSide == 6

\* Padding that rounds the half up: the odd unit would go to the top/left.
PadBeforeCeil(min_side, side) == (min_side - side + 1) \div 2

\* int((min_side - side) / 2.0), used only when side < min_side.
PadBefore(min_side, side) == (min_side - side) \div 2

PadAfter(min_side, side, before) == min_side - side - before

PadIdle ==
    /\ rows = 0 /\ cols = 0 /\ min_height = 0 /\ min_width = 0
    /\ pad_top = 0 /\ pad_bottom = 0 /\ pad_left = 0 /\ pad_right = 0

ImageIdle == height = 0 /\ width = 0 /\ draws = 0

GridIdle ==
    /\ n = 0 /\ m = 0 /\ seed = -1
    /\ height_split = <<>> /\ width_split = <<>> /\ new_index_matrix = <<>>
    /\ todo = <<>> /\ visited = <<>> /\ calls = <<>> /\ mt = {} /\ tiles = <<>>
    /\ run = 0 /\ first = <<>>

CropIdle ==
    /\ params_mask = <<>> /\ mask_ndim = 0 /\ mask_height = 0 /\ mask_width = 0
    /\ mask = <<>> /\ self_height = 0 /\ self_width = 0
    /\ ignore_values = None /\ ignore_channels = None
    /\ y = -1 /\ x = -1 /\ x_min = -1 /\ x_max = -1 /\ y_min = -1 /\ y_max = -1

RrcIdle ==
    /\ scale = <<>> /\ ratio = <<>> /\ attempt = 0
    /\ rrc_w = -1 /\ rrc_h = -1 /\ rrc_i = -1 /\ rrc_j = -1

OutIdle == crop_height = -1 /\ crop_width = -1 /\ h_start = <<>> /\ w_start = <<>>

BboxIdle == bboxes = 0 /\ erosion_rate = 0 /\ union = <<>> /\ bbox = <<>>

DecIdle ==
    /\ decorator = "" /\ dec_dtype = "None" /\ img = <<>> /\ called_with = <<>>
    /\ func_out = <<>> /\ result = <<>>

BenchIdle == shapes = <<>> /\ iterations_arg = <<>> /\ iterations = <<>> /\ results = <<>>

InitPad ==
    /\ pc = "pad_start"
    /\ DecIdle /\ BenchIdle /\ ImageIdle /\ GridIdle /\ CropIdle /\ RrcIdle /\ OutIdle /\ BboxIdle
    /\ rows \in 1..MaxSide
    /\ cols \in 1..MaxSide
    /\ min_height \in 0..MaxMinSide
    /\ min_width \in 0..MaxMinSide
    /\ pad_top = 0 /\ pad_bottom = 0 /\ pad_left = 0 /\ pad_right = 0

update_params ==
    /\ pc = "pad_start"
    /\ LET h_pad_top == IF rows < min_height THEN PadBefore(min_height, rows) ELSE 0
           h_pad_bottom == IF rows < min_height
                             THEN PadAfter(min_height, rows, h_pad_top) ELSE 0
           w_pad_left == IF cols < min_width THEN PadBefore(min_width, cols) ELSE 0
           w_pad_right == IF cols < min_width
                            THEN PadAfter(min_width, cols, w_pad_left) ELSE 0
       IN /\ pad_top' = h_pad_top
          /\ pad_bottom' = h_pad_bottom
          /\ pad_left' = w_pad_left
          /\ pad_right' = w_pad_right
    /\ pc' = "pad_done"
    /\ UNCHANGED <<decVars, benchVars, rows, cols, min_height, min_width, imageVars, gridVars, cropVars, rrcVars, outVars, bboxVars>>

NextPad == update_params

SpecPad == InitPad /\ [][NextPad]_vars

\* C10: after update_params the paddings are non-negative, the padded sides are
\* max(rows, min_height) and max(cols, min_width), a side that already reaches
\* its minimum gets no padding, and the padding is centred with the odd unit on
\* the bottom/right.
PadReachesMinimum ==
    pc = "pad_done" =>
        /\ pad_top >= 0 /\ pad_bottom >= 0 /\ pad_left >= 0 /\ pad_right >= 0
        /\ rows + pad_top + pad_bottom = Max(rows, min_height)
        /\ cols + pad_left + pad_right = Max(cols, min_width)
        /\ rows >= min_height => (pad_top = 0 /\ pad_bottom = 0)
        /\ cols >= min_width => (pad_left = 0 /\ pad_right = 0)
        /\ pad_top <= pad_bottom /\ pad_bottom <= pad_top + 1
        /\ pad_left <= pad_right /\ pad_right <= pad_left + 1

\* An image padded by an odd amount in height and not at all in width.
PadOddWitness ==
    /\ pc = "pad_done"
    /\ rows < min_height
    /\ pad_bottom = pad_top + 1
    /\ pad_top >= 1
    /\ cols >= min_width

(***************************************************************************)
(* RandomGridShuffleTorch.get_params_dependent_on_targets                  *)
(***************************************************************************)
\* Image sides and grids of the runs that shuffle, and the largest number of
\* tiles a shuffled grid has.
MaxHeight == 6

MaxWidth == 7

MaxGridN == 3

MaxGridM == 3

MaxTiles == 6

\* The largest number of tiles of a grid that is shuffled twice.
MaxReplayTiles == 4

\* Seeds drawn by random.randint(0, 10000), cut down to 0..MaxSeed.
MaxSeed == 1

\* Image heights and row counts of the runs that only build the grid.
MaxSplitHeight == 60

MaxSplitN == 23

MaxSplitWidth == 5

\* Fraction bits of a float64, the type np.linspace computes in.
MantissaBits == 52

RECURSIVE Pow2(_)
Pow2(e) == IF e = 0 THEN 1 ELSE 2 * Pow2(e - 1)

RECURSIVE Pow2Mod(_, _)
\* 2^e modulo q
Pow2Mod(e, q) == IF e = 0 THEN 1 % q ELSE (2 * Pow2Mod(e - 1, q)) % q

RECURSIVE FloorLog2(_, _)
\* floor(log2(a / b)) for a >= b >= 1
FloorLog2(a, b) == IF a < 2 * b THEN 0 ELSE 1 + FloorLog2(a, 2 * b)

\* fl(stop / div) as a float64: the step is M * 2^-e with e = MantissaBits -
\* floor(log2(stop / div)) and M = round(stop * 2^e / div).  StepDeficit is
\* stop * 2^e - M * div when the quotient was rounded down and 0 when it was
\* exact or rounded up (the remainder of stop * 2^e modulo div, computed
\* modulo div so that no number exceeds div^2).
StepDeficit(stop, div) ==
    LET e == MantissaBits - FloorLog2(stop, div)
        r == ((stop % div) * Pow2Mod(e, div)) % div
    IN  IF 2 * r > div THEN 0 ELSE r

\* The product rounded to the nearest integer (half up) instead of cut off.
FloatProductRound(i, stop, div) == (2 * i * stop + div) \div (2 * div)

\* int(fl(i * fl(stop / div))) for 0 <= i < div <= stop, the float64 product
\* np.linspace casts to an integer.  When i * stop / div is not an integer it
\* is at least 1/div away from one and the rounding errors (below 2^-40 here)
\* cannot change its floor.  When it is an integer k, the exact product of i
\* and the rounded step is k - d * 2^-e with d = i * StepDeficit / div; it
\* rounds to a float64 below k, and the cast gives k - 1, exactly when d is
\* more than half the spacing of the float64 numbers just below k.
FloatProductFloor(i, stop, div) ==
    LET k == (i * stop) \div div
        d == (i * StepDeficit(stop, div)) \div div
        below == IF Pow2(FloorLog2(k, 1)) = k THEN FloorLog2(k, 1) - 1 ELSE FloorLog2(k, 1)
        spacing == Pow2(below - FloorLog2(stop, div))
    IN  IF i = 0 \/ (i * stop) % div # 0 \/ d = 0 THEN k
        ELSE IF 2 * d > spacing THEN k - 1 ELSE k

\* np.linspace with endpoint=False: div + 1 points that stop short of stop.
LinspaceOpen(stop, div) == [i \in 0..div |-> (i * stop) \div (div + 1)]

\* np.linspace(0, stop, div + 1, dtype=np.int): arange(0, div + 1) * step, the
\* last element set to stop, cast to integers.
Linspace(stop, div) ==
    [i \in 0..div |-> IF i = div THEN stop ELSE FloatProductFloor(i, stop, div)]

\* The cells (r, c) of the grid in row-major order, as numpy flattens them.
Cells == (0..(n - 1)) \X (0..(m - 1))

CellAt(k) == <<(k - 1) \div m, (k - 1) % m>>

CellSeq == [k \in 1..(n * m) |-> CellAt(k)]

\* height_tile_sizes and width_tile_sizes: shifted matrix minus index matrix.
HeightTileSize(hs, cell) == hs[cell[1] + 1] - hs[cell[1]]

WidthTileSize(ws, cell) == ws[cell[2] + 1] - ws[cell[2]]

\* tiles_sizes = np.stack((height_tile_sizes, width_tile_sizes), axis=2)
TilesSizes(hs, ws, cell) == <<HeightTileSize(hs, cell), WidthTileSize(ws, cell)>>

LexLess(a, b) == a[1] < b[1] \/ (a[1] = b[1] /\ a[2] < b[2])

RECURSIVE SortedRows(_)
SortedRows(S) ==
    IF S = {} THEN <<>>
    ELSE LET least == CHOOSE a \in S : \A b \in S \ {a} : LexLess(a, b)
         IN  <<least>> \o SortedRows(S \ {least})

\* np.unique(tiles_sizes.reshape(-1, 2), axis=0): the distinct rows, sorted.
Unique(hs, ws) == SortedRows({TilesSizes(hs, ws, cell) : cell \in Cells})

InitGridWith(maxH, maxW, maxN, maxM, maxTiles) ==
    /\ pc = "grid_start"
    /\ DecIdle /\ BenchIdle /\ PadIdle /\ CropIdle /\ RrcIdle /\ OutIdle /\ BboxIdle
    /\ height \in 1..maxH
    /\ width \in 1..maxW
    /\ draws = 0
    /\ n \in (-1)..maxN
    /\ m \in (-1)..maxM
    /\ (n > 0 /\ m > 0) => n * m <= maxTiles
    /\ seed = -1
    /\ height_split = <<>> /\ width_split = <<>> /\ new_index_matrix = <<>>
    /\ todo = <<>> /\ visited = <<>> /\ calls = <<>> /\ mt = {} /\ tiles = <<>>
    /\ run = 1 /\ first = <<>>

InitGridSplit ==
    InitGridWith(MaxSplitHeight, MaxSplitWidth, MaxSplitN, MaxSplitWidth, MaxSplitN * MaxSplitWidth)

\* The second check with the half rounded up instead of down.
GridAcceptedHalfUp == n > 0 /\ m > 0 /\ n <= (height + 1) \div 2 /\ m <= (width + 1) \div 2

\* The grid passes both checks of lines 384-388.
GridAccepted == n > 0 /\ m > 0 /\ n <= height \div 2 /\ m <= width \div 2

\* lines 384-388: the two checks, each raising ValueError
GridCheck ==
    /\ pc = "grid_start"
    /\ pc' = IF GridAccepted THEN "grid_seed" ELSE "grid_raised"
    /\ UNCHANGED <<decVars, benchVars, padVars, imageVars, gridVars, cropVars, rrcVars, outVars, bboxVars>>

\* line 390: random_state = np.random.RandomState(random.randint(0, 10000))
GridSeed ==
    /\ pc = "grid_seed"
    /\ \E s \in 0..MaxSeed : seed' = s
    /\ draws' = draws + 1
    /\ pc' = "grid_split"
    /\ UNCHANGED <<decVars, benchVars, padVars, cropVars, rrcVars, outVars, bboxVars, height, width, n, m, height_split, width_split,
                   new_index_matrix, todo, visited, calls, mt, tiles, run, first>>

\* lines 392-409: the two linspace calls, the tile sizes, the identity index
\* matrix and the rows of np.unique the loop is going to visit
GridSplit ==
    /\ pc = "grid_split"
    /\ height_split' = Linspace(height, n)
    /\ width_split' = Linspace(width, m)
    /\ new_index_matrix' = [cell \in Cells |-> cell]
    /\ todo' = Unique(height_split', width_split')
    /\ visited' = <<>>
    /\ calls' = <<>>
    /\ pc' = "grid_permute"
    /\ UNCHANGED <<decVars, benchVars, padVars, cropVars, rrcVars, outVars, bboxVars, imageVars, n, m, seed, mt, tiles, run, first>>

NextGridSplit == GridCheck \/ GridSeed \/ GridSplit

\* The call up to line 409, for large images and grids.
SpecGridSplit == InitGridSplit /\ [][NextGridSplit]_vars

RowHeights == [r \in 0..(n - 1) |-> height_split[r + 1] - height_split[r]]

ColWidths == [c \in 0..(m - 1) |-> width_split[c + 1] - width_split[c]]

RECURSIVE SumTo(_, _)
SumTo(f, last) == IF last < 0 THEN 0 ELSE f[last] + SumTo(f, last - 1)

GridBuilt == pc \in {"grid_permute", "grid_tiles", "grid_done"}

\* C1: for every accepted grid the boundaries start at 0, end at the image
\* side and increase strictly, the row heights sum to height and the column
\* widths to width, every cell is at least 1 x 1, and every pixel row lies in
\* exactly one grid row and every pixel column in exactly one grid column (a
\* pixel lies in cell (r, c) iff its row lies in grid row r and its column in
\* grid column c, so every pixel lies in exactly one cell).
GridCoversImage ==
    GridBuilt =>
        /\ height_split[0] = 0 /\ height_split[n] = height
        /\ width_split[0] = 0 /\ width_split[m] = width
        /\ \A r \in 0..(n - 1) : height_split[r] < height_split[r + 1]
        /\ \A c \in 0..(m - 1) : width_split[c] < width_split[c + 1]
        /\ SumTo(RowHeights, n - 1) = height
        /\ SumTo(ColWidths, m - 1) = width
        /\ \A cell \in Cells : /\ HeightTileSize(height_split, cell) >= 1
                               /\ WidthTileSize(width_split, cell) >= 1
        /\ \A py \in 0..(height - 1) :
              Cardinality({r \in 0..(n - 1) :
                  height_split[r] <= py /\ py < height_split[r + 1]}) = 1
        /\ \A px \in 0..(width - 1) :
              Cardinality({c \in 0..(m - 1) :
                  width_split[c] <= px /\ px < width_split[c + 1]}) = 1

\* A grid with rows of two heights, one of whose boundaries the float64
\* product puts one below floor(i * height / n).
GridCoversWitness ==
    /\ GridBuilt
    /\ \E r \in 1..(n - 1) : height_split[r] = ((r * height) \div n) - 1
    /\ \E r \in 0..(n - 1) : RowHeights[r] # RowHeights[0]
    /\ m >= 2

FloorDiv(a, b) == a \div b

CeilDiv(a, b) == (a + b - 1) \div b

NonIncreasing(f, last) == \A i \in 0..(last - 1) : f[i] >= f[i + 1]

\* C7 as stated: the row heights never increase with the row index and the
\* column widths never increase with the column index.
EarlierCellsAbsorbExtra ==
    GridBuilt => NonIncreasing(RowHeights, n - 1) /\ NonIncreasing(ColWidths, m - 1)

\* C7, amended: every row height is floor(height/n) or ceil(height/n), the
\* first row has floor(height/n) and the last row ceil(height/n); the same for
\* the column widths.  The extra units go to later cells, not to the earlier.
LaterCellsAbsorbExtra ==
    GridBuilt =>
        /\ \A r \in 0..(n - 1) : RowHeights[r] \in {FloorDiv(height, n), CeilDiv(height, n)}
        /\ RowHeights[0] = FloorDiv(height, n)
        /\ RowHeights[n - 1] = CeilDiv(height, n)
        /\ \A c \in 0..(m - 1) : ColWidths[c] \in {FloorDiv(width, m), CeilDiv(width, m)}
        /\ ColWidths[0] = FloorDiv(width, m)
        /\ ColWidths[m - 1] = CeilDiv(width, m)

\* A height that n does not divide, whose row heights go up, down and up again.
UnevenRowsWitness ==
    /\ GridBuilt
    /\ height % n # 0
    /\ \E r \in 0..(n - 3) : /\ RowHeights[r] < RowHeights[r + 1]
                             /\ RowHeights[r + 1] > RowHeights[r + 2]
    /\ RowHeights[0] < RowHeights[n - 1]

(***************************************************************************)
(* The permutation stage, lines 411-428                                    *)
(***************************************************************************)
\* np.any instead of np.all: cells that agree with bbox_size in one component.
EqMatAny(hs, ws, bbox_size) ==
    SelectSeq(CellSeq, LAMBDA cell : \/ HeightTileSize(hs, cell) = bbox_size[1]
                                     \/ WidthTileSize(ws, cell) = bbox_size[2])

\* eq_mat = np.all(tiles_sizes == bbox_size, axis=2), as the row-major list of
\* the cells it selects (the order in which boolean-mask indexing reads and
\* writes them).
EqMat(hs, ws, bbox_size) ==
    SelectSeq(CellSeq, LAMBDA cell : TilesSizes(hs, ws, cell) = bbox_size)

\* k rows drawn with replacement: a row may come twice and another not at all.
PermsWithRepeats(k) == [1..k -> 1..k]

\* The orders in which k rows can be rearranged.
Perms(k) == {p \in [1..k -> 1..k] : \A i, j \in 1..k : p[i] = p[j] => i = j}

Known(seen, s, lens) == {e \in seen : e.seed = s /\ e.calls = lens}

\* np.random.permutation of the process-wide generator: any order, whatever
\* the seed.
GlobalPermutation(seen, s, lens) == Perms(lens[Len(lens)])

\* random_state.permutation(arr): the generator is a function of its seed and
\* of the calls made on it so far (lens, the lengths of the arrays shuffled,
\* this one included) and is otherwise unknown: a sequence of calls seen before
\* gives the order it gave then, a new one may give any order.
RandomStatePermutation(seen, s, lens) ==
    IF Known(seen, s, lens) # {}
      THEN {e.perm : e \in Known(seen, s, lens)}
      ELSE Perms(lens[Len(lens)])

InitGridShuffle == InitGridWith(MaxHeight, MaxWidth, MaxGridN, MaxGridM, MaxTiles)

InitGridReplay == InitGridWith(MaxHeight, MaxWidth, MaxGridN, MaxGridM, MaxReplayTiles)

\* lines 411-413: one iteration of the loop over np.unique
GridPermute ==
    /\ pc = "grid_permute"
    /\ todo # <<>>
    /\ LET bbox_size == Head(todo)
           eq_mat == EqMat(height_split, width_split, bbox_size)
           k == Len(eq_mat)
           lens == Append(calls, k)
           Pos(cell) == CHOOSE j \in 1..k : eq_mat[j] = cell
       IN  \E p \in RandomStatePermutation(mt, seed, lens) :
              /\ new_index_matrix' =
                    [cell \in Cells |->
                        IF \E j \in 1..k : eq_mat[j] = cell
                          THEN new_index_matrix[eq_mat[p[Pos(cell)]]]
                          ELSE new_index_matrix[cell]]
              /\ mt' = mt \cup {[seed |-> seed, calls |-> lens, perm |-> p]}
              /\ calls' = lens
    /\ todo' = Tail(todo)
    /\ visited' = Append(visited, Head(todo))
    /\ UNCHANGED <<pc, decVars, benchVars, padVars, cropVars, rrcVars, outVars, bboxVars, imageVars, n, m, seed, height_split, width_split,
                   tiles, run, first>>

\* lines 415-428: the table of (curr_x, curr_y, old_x, old_y, shift_x, shift_y)
GridTiles ==
    /\ pc = "grid_permute"
    /\ todo = <<>>
    /\ tiles' = [k \in 1..(n * m) |->
                    LET cell == CellAt(k)
                        old == new_index_matrix[cell]
                    IN  <<height_split[cell[1]], width_split[cell[2]],
                          height_split[old[1]], width_split[old[2]],
                          HeightTileSize(height_split, cell),
                          WidthTileSize(width_split, cell)>>]
    /\ pc' = "grid_done"
    /\ UNCHANGED <<decVars, benchVars, padVars, cropVars, rrcVars, outVars, bboxVars, imageVars, n, m, seed, height_split, width_split,
                   new_index_matrix, todo, visited, calls, mt, run, first>>

\* The transform is called again on an image of the same size: the call starts
\* afresh, the generators keep being the functions of their seeds they were.
GridRerun ==
    /\ pc = "grid_done"
    /\ run = 1
    /\ first' = [seed |-> seed, visited |-> visited, tiles |-> tiles]
    /\ run' = 2
    /\ pc' = "grid_start"
    /\ draws' = 0
    /\ seed' = -1
    /\ height_split' = <<>> /\ width_split' = <<>> /\ new_index_matrix' = <<>>
    /\ todo' = <<>> /\ visited' = <<>> /\ calls' = <<>> /\ tiles' = <<>>
    /\ UNCHANGED <<decVars, benchVars, padVars, cropVars, rrcVars, outVars, bboxVars, height, width, n, m, mt>>

NextGridShuffle == GridCheck \/ GridSeed \/ GridSplit \/ GridPermute \/ GridTiles

SpecGridShuffle == InitGridShuffle /\ [][NextGridShuffle]_vars

NextGridReplay == NextGridShuffle \/ GridRerun

SpecGridReplay == InitGridReplay /\ [][NextGridReplay]_vars

SizeOf(cell) == TilesSizes(height_split, width_split, cell)

SizeGroup(cell) == {other \in Cells : SizeOf(other) = SizeOf(cell)}

\* C2: in the mapping, while it is permuted and when it is returned, the cell
\* assigned to a cell has the size of that cell and a cell that is alone with
\* its size is assigned to itself; a grid whose tiles all have one size is
\* shuffled as a single group of n * m tiles.
PermutedWithinSizeGroup ==
    /\ GridBuilt =>
          /\ \A cell \in Cells : SizeOf(new_index_matrix[cell]) = SizeOf(cell)
          /\ \A cell \in Cells : SizeGroup(cell) = {cell} => new_index_matrix[cell] = cell
    /\ pc = "grid_done" =>
          ((\A a, b \in Cells : SizeOf(a) = SizeOf(b)) =>
              /\ Len(visited) = 1
              /\ calls = <<n * m>>)

\* A mapping of a grid that has a tile alone with its size and a group of two
\* tiles that were exchanged.
SizeGroupsWitness ==
    /\ pc = "grid_done"
    /\ \E cell \in Cells : SizeGroup(cell) = {cell}
    /\ \E cell \in Cells : /\ new_index_matrix[cell] # cell
                           /\ Cardinality(SizeGroup(cell)) = 2

\* The step the call is at can be taken: the checks, the seed and the split
\* always can, a loop turn when its size group has cells and the generator an
\* order for them.
GridCanGoOn ==
    /\ pc \in {"grid_start", "grid_seed", "grid_split", "grid_permute"}
    /\ pc = "grid_seed" => 0..MaxSeed # {}
    /\ (pc = "grid_permute" /\ todo # <<>>) =>
          LET k == Len(EqMat(height_split, width_split, Head(todo)))
          IN  k > 0 /\ RandomStatePermutation(mt, seed, Append(calls, k)) # {}

\* C3: the call raises exactly when n <= 0, m <= 0, n > height/2 or
\* m > width/2; it raises before any random number is drawn and without a
\* mapping, and an accepted grid is never refused: the call can always go on
\* until it ends with a mapping of n * m records.
GridRaisesExactlyWhenInvalid ==
    LET invalid == n <= 0 \/ m <= 0 \/ 2 * n > height \/ 2 * m > width
    IN  /\ pc = "grid_raised" => invalid /\ draws = 0 /\ seed = -1 /\ tiles = <<>>
        /\ invalid => pc \in {"grid_start", "grid_raised"} /\ draws = 0
        /\ pc = "grid_done" => Len(tiles) = n * m /\ draws = 1
        /\ pc \in {"grid_start", "grid_seed", "grid_split", "grid_permute"} => GridCanGoOn
        /\ pc \in {"grid_start", "grid_seed", "grid_split", "grid_permute",
                    "grid_done", "grid_raised"}

\* A positive grid refused for having one row more than half an odd height.
GridRaisedWitness ==
    /\ pc = "grid_raised"
    /\ n > 0 /\ m > 0
    /\ height % 2 = 1 /\ 2 * n = height + 1
    /\ 2 * m <= width

\* C8: a repeated call on the same image size and grid whose generator got
\* the seed of the first call visits the size groups in the same order and
\* returns the same tiles table.
SameSeedSameTiles ==
    (pc = "grid_done" /\ run = 2 /\ seed = first.seed) =>
        /\ visited = first.visited
        /\ tiles = first.tiles

\* A repeated call with the seed of the first that returned a mapping other
\* than the identity, built from more than one size group.
SameSeedWitness ==
    /\ pc = "grid_done" /\ run = 2
    /\ seed = first.seed
    /\ Len(visited) >= 2
    /\ \E cell \in Cells : new_index_matrix[cell] # cell

\* The top-left pixel of a cell: index_height_matrix and index_width_matrix
\* at the cell.
TopLeft(cell) == <<height_split[cell[1]], width_split[cell[2]]>>

\* The records of the table whose columns c and c + 1 hold the pixel.
RecordsAt(c, pixel) == {k \in 1..Len(tiles) : <<tiles[k][c], tiles[k][c + 1]>> = pixel}

\* C13: the mapping is a bijection on the cells while it is permuted, and the
\* returned table has n * m records in row-major order of the cells, whose
\* current top-lefts (columns 0-1) and whose old top-lefts (columns 2-3) each
\* hold every cell's top-left exactly once and whose columns 4-5 are the size
\* of the record's current cell; the sizes form 1, 2 or 4 groups.
TilesAreBijection ==
    /\ GridBuilt =>
          \A cell \in Cells :
              Cardinality({other \in Cells : new_index_matrix[other] = cell}) = 1
    /\ pc = "grid_done" =>
          /\ Len(tiles) = n * m
          /\ \A k \in 1..(n * m) :
                /\ <<tiles[k][1], tiles[k][2]>> = TopLeft(CellAt(k))
                /\ <<tiles[k][3], tiles[k][4]>> = TopLeft(new_index_matrix[CellAt(k)])
                /\ <<tiles[k][5], tiles[k][6]>> = SizeOf(CellAt(k))
          /\ \A cell \in Cells :
                /\ Cardinality(RecordsAt(1, TopLeft(cell))) = 1
                /\ Cardinality(RecordsAt(3, TopLeft(cell))) = 1
          /\ Len(visited) \in {1, 2, 4}

\* A returned table of a grid with four size groups in which some record has
\* an old top-left other than its current one.
FourGroupsWitness ==
    /\ pc = "grid_done"
    /\ Len(visited) = 4
    /\ \E k \in 1..Len(tiles) : <<tiles[k][1], tiles[k][2]>> # <<tiles[k][3], tiles[k][4]>>

(***************************************************************************)
(* CropNonEmptyMaskIfExistsTorch.get_params_dependent_on_targets           *)
(***************************************************************************)
\* Largest mask sides; the configured crop sides go one beyond them.
MaxMaskHeight == 2

MaxMaskWidth == 3

\* Masks hold class labels; 0 is the background.
MaskValues == {0, 1, 2}

\* Channel counts of the rank-3 masks.
ChannelCounts == {1, 2}

IgnoreValueLists == {<<1>>, <<2, 1, 2>>}

IgnoreChannelLists == {<<1>>, <<0, 1>>}

Elems(seq) == {seq[i] : i \in 1..Len(seq)}

MaskPositions(channels, h, w) == (0..(channels - 1)) \X (0..(h - 1)) \X (0..(w - 1))

Channels(msk) == {p[1] : p \in DOMAIN msk}

RECURSIVE SumOver(_, _)
SumOver(msk, S) ==
    IF S = {} THEN 0
    ELSE LET p == CHOOSE q \in S : TRUE IN msk[p] + SumOver(msk, S \ {p})

\* mask.sum()
MaskSum(msk) == SumOver(msk, DOMAIN msk)

\* lines 315-318: every ignored value becomes 0
DropIgnoredValues(msk, values) ==
    IF values.is_none THEN msk
    ELSE [p \in DOMAIN msk |-> IF msk[p] \in Elems(values.list) THEN 0 ELSE msk[p]]

RECURSIVE Ascending(_)
Ascending(S) ==
    IF S = {} THEN <<>>
    ELSE LET least == CHOOSE a \in S : \A b \in S : a <= b
         IN  <<least>> \o Ascending(S \ {least})

\* line 321: the channels that are not ignored, in increasing order
TargetChannels(msk, channels) == Ascending(Channels(msk) \ Elems(channels.list))

\* lines 320-322: mask = mask[target_channels], for rank-3 masks only
DropIgnoredChannels(msk, ndim, channels) ==
    IF ndim # 3 \/ channels.is_none THEN msk
    ELSE LET target_channels == TargetChannels(msk, channels)
         IN  [p \in (0..(Len(target_channels) - 1)) \X (0..(mask_height - 1))
                        \X (0..(mask_width - 1)) |->
                 msk[<<target_channels[p[1] + 1], p[2], p[3]>>]]

\* line 335: mask.sum(dim=0) of a rank-3 mask, the mask itself at rank 2
ChannelSum(msk, py, px) == SumOver(msk, {p \in DOMAIN msk : p[2] = py /\ p[3] = px})

\* line 336: torch.nonzero, the (y, x) whose summed value is not 0
NonZeroYX(msk) ==
    {yx \in (0..(mask_height - 1)) \X (0..(mask_width - 1)) : ChannelSum(msk, yx[1], yx[2]) # 0}

\* The check of line 324 with "and" in the place of "or".
CropTooLargeBoth == self_height > mask_height /\ self_width > mask_width

\* line 324
CropTooLarge == self_height > mask_height \/ self_width > mask_width

\* Offsets drawn with the crop side itself included.
BackwardOffsetsInclusive(side) == 0..side

\* lines 338-339: random.randint(0, side - 1)
BackwardOffsets(side) == 0..(side - 1)

\* torch.clamp(v, lo, hi)
Clamp(v, lo, hi) == Min(Max(v, lo), hi)

InitCrop ==
    /\ pc = "crop_start"
    /\ DecIdle /\ BenchIdle /\ PadIdle /\ ImageIdle /\ GridIdle /\ RrcIdle /\ OutIdle /\ BboxIdle
    /\ mask_height \in 1..MaxMaskHeight
    /\ mask_width \in 1..MaxMaskWidth
    /\ \E channels \in ChannelCounts :
          /\ mask_ndim \in (IF channels = 1 THEN {2, 3} ELSE {3})
          /\ \E p1, p2 \in MaskPositions(channels, mask_height, mask_width) :
             \E v1 \in MaskValues, v2 \in {0, 1} :
                params_mask = [p \in MaskPositions(channels, mask_height, mask_width) |->
                                  IF p = p1 THEN v1 ELSE IF p = p2 THEN v2 ELSE 0]
    /\ mask = params_mask
    /\ self_height \in 1..(MaxMaskHeight + 1)
    /\ self_width \in 1..(MaxMaskWidth + 1)
    /\ ignore_values \in {None} \cup {Some(l) : l \in IgnoreValueLists}
    /\ ignore_channels \in {None} \cup {Some(l) : l \in IgnoreChannelLists}
    /\ draws = 0
    /\ y = -1 /\ x = -1 /\ x_min = -1 /\ x_max = -1 /\ y_min = -1 /\ y_max = -1

\* lines 315-322, the mask given with at most two non-zero pixels
CropIgnore ==
    /\ pc = "crop_start"
    /\ mask' = DropIgnoredChannels(DropIgnoredValues(mask, ignore_values),
                                   mask_ndim, ignore_channels)
    /\ pc' = "crop_check"
    /\ UNCHANGED <<decVars, benchVars, padVars, imageVars, gridVars, rrcVars, outVars, bboxVars, params_mask, mask_ndim, mask_height,
                   mask_width, self_height, self_width, ignore_values, ignore_channels,
                   y, x, x_min, x_max, y_min, y_max>>

\* lines 324-329
CropCheck ==
    /\ pc = "crop_check"
    /\ pc' = IF CropTooLarge THEN "crop_raised" ELSE "crop_sample"
    /\ UNCHANGED <<decVars, benchVars, padVars, imageVars, gridVars, cropVars, rrcVars, outVars, bboxVars>>

\* lines 331-333 and 343-346: nothing left in the mask, a random crop
CropAnywhere ==
    /\ pc = "crop_sample"
    /\ MaskSum(mask) = 0
    /\ \E rx \in 0..(mask_width - self_width), ry \in 0..(mask_height - self_height) :
          /\ x_min' = rx
          /\ y_min' = ry
          /\ x_max' = rx + self_width
          /\ y_max' = ry + self_height
    /\ draws' = draws + 2
    /\ pc' = "crop_done"
    /\ UNCHANGED <<decVars, benchVars, padVars, height, width, gridVars, rrcVars, outVars, bboxVars, params_mask, mask_ndim, mask_height,
                   mask_width, mask, self_height, self_width, ignore_values,
                   ignore_channels, y, x>>

\* lines 334-346: a crop around a sampled non-zero pixel
CropAroundPixel ==
    /\ pc = "crop_sample"
    /\ MaskSum(mask) # 0
    /\ \E yx \in NonZeroYX(mask) :
       \E dx \in BackwardOffsets(self_width), dy \in BackwardOffsets(self_height) :
          LET cx == Clamp(yx[2] - dx, 0, mask_width - self_width)
              cy == Clamp(yx[1] - dy, 0, mask_height - self_height)
          IN  /\ y' = yx[1]
              /\ x' = yx[2]
              /\ x_min' = cx
              /\ y_min' = cy
              /\ x_max' = cx + self_width
              /\ y_max' = cy + self_height
    /\ draws' = draws + 3
    /\ pc' = "crop_done"
    /\ UNCHANGED <<decVars, benchVars, padVars, height, width, gridVars, rrcVars, outVars, bboxVars, params_mask, mask_ndim, mask_height,
                   mask_width, mask, self_height, self_width, ignore_values,
                   ignore_channels>>

NextCrop == CropIgnore \/ CropCheck \/ CropAnywhere \/ CropAroundPixel

SpecCrop == InitCrop /\ [][NextCrop]_vars

\* C4: a crop made around a sampled non-zero pixel contains that pixel, stays
\* inside the mask and has the configured size.
CropContainsSampledPixel ==
    (pc = "crop_done" /\ x # -1) =>
        /\ <<y, x>> \in NonZeroYX(mask)
        /\ x_min <= x /\ x < x_max
        /\ y_min <= y /\ y < y_max
        /\ 0 <= x_min /\ x_max <= mask_width
        /\ 0 <= y_min /\ y_max <= mask_height
        /\ x_max - x_min = self_width
        /\ y_max - y_min = self_height

\* A crop smaller than the mask around a pixel of the last row and column,
\* pushed back inside by the clamp, on a mask that lost a pixel to the ignored
\* values.
CropAroundPixelWitness ==
    /\ pc = "crop_done"
    /\ x = mask_width - 1 /\ y = mask_height - 1
    /\ self_width < mask_width /\ self_height < mask_height
    /\ x_max = mask_width /\ x_min < x
    /\ mask # params_mask

\* C5, the state part: the call raises exactly when the crop is larger than
\* the mask in height or in width, whatever the mask holds, and it raises
\* before any random number is drawn and without a rectangle; a call that has
\* passed the check finds every range it draws from non-empty, so that nothing
\* else raises.
CropRaisedStates ==
    LET larger == self_height > mask_height \/ self_width > mask_width
    IN  /\ pc = "crop_raised" =>
              larger /\ draws = 0 /\ x_min = -1 /\ x_max = -1 /\ y_min = -1 /\ y_max = -1
        /\ larger => pc \in {"crop_start", "crop_check", "crop_raised"} /\ draws = 0
        /\ pc = "crop_done" => ~larger /\ x_min # -1
        /\ pc = "crop_sample" =>
              /\ 0..(mask_width - self_width) # {} /\ 0..(mask_height - self_height) # {}
              /\ BackwardOffsets(self_width) # {} /\ BackwardOffsets(self_height) # {}
              /\ MaskSum(mask) # 0 => NonZeroYX(mask) # {}

\* C5: CropRaisedStates always holds, and a call that raised stays raised (it
\* is not retried).
CropRaisesWhenTooLarge ==
    /\ []CropRaisedStates
    /\ [][pc = "crop_raised" => pc' = "crop_raised"]_vars

\* A call that raised for a crop too wide but not too high, on a mask whose
\* only non-zero pixels had been removed as ignored.
CropRaisedWitness ==
    /\ pc = "crop_raised"
    /\ self_width > mask_width /\ self_height <= mask_height
    /\ MaskSum(params_mask) # 0
    /\ MaskSum(mask) = 0

(***************************************************************************)
(* RandomResizedCropTorch.get_params_dependent_on_targets                  *)
(*                                                                         *)
(* Scales and aspect ratios are multiples of 1/4 and the ratios are dyadic *)
(* (1/2, 3/4, 1, 3/2, 2), so they are exact as floats and every rounding   *)
(* below is the one the float computation makes: a quotient or a square    *)
(* root that is not exact is never within rounding error of a half.        *)
(***************************************************************************)
\* Largest image side of the resized crops.
MaxCropSide == 4

\* range(10)
MaxAttempts == 10

\* Aspect ratios, in quarters.
RatioQuarters == {2, 3, 4, 6, 8}

\* Scales, in quarters.
ScaleQuarters == {1, 2, 4}

\* int(a / b), the quotient cut off instead of rounded.
TruncDiv(a, b) == a \div b

\* int(round(a / b)) for a >= 0, b > 0: Python rounds a half to the even side
RoundDiv(a, b) ==
    LET q == a \div b
        twice == 2 * (a % b)
    IN  IF twice < b THEN q
        ELSE IF twice > b THEN q + 1
        ELSE IF q % 2 = 0 THEN q ELSE q + 1

RECURSIVE FloorSqrtFrom(_, _, _)
\* the largest t >= from with t * t * b <= a
FloorSqrtFrom(a, b, from) ==
    IF (from + 1) * (from + 1) * b > a THEN from ELSE FloorSqrtFrom(a, b, from + 1)

\* int(round(math.sqrt(a / b))): with t = floor(2 * sqrt(a / b)), the root
\* lies in [t/2, (t+1)/2)
RoundSqrt(a, b) ==
    LET t == FloorSqrtFrom(4 * a, b, 0)
    IN  IF t % 2 = 0 THEN t \div 2
        ELSE IF t * t * b = 4 * a
               THEN (IF ((t - 1) \div 2) % 2 = 0 THEN (t - 1) \div 2 ELSE (t + 1) \div 2)
               ELSE (t + 1) \div 2

\* i * 1.0 / (side - crop + 1e-10): 0/1e-10 = 0 when the crop spans the side
StartFraction(offset, slack) == IF slack = 0 THEN <<0, 1>> ELSE <<offset, slack>>

InitRrc ==
    /\ pc = "rrc_loop"
    /\ DecIdle /\ BenchIdle /\ PadIdle /\ GridIdle /\ CropIdle /\ OutIdle /\ BboxIdle
    /\ height \in 1..MaxCropSide
    /\ width \in 1..MaxCropSide
    /\ draws = 0
    /\ scale \in {sc \in ScaleQuarters \X ScaleQuarters : sc[1] <= sc[2]}
    /\ ratio \in {ra \in RatioQuarters \X RatioQuarters : ra[1] <= ra[2]}
    /\ attempt = 0
    /\ rrc_w = -1 /\ rrc_h = -1 /\ rrc_i = -1 /\ rrc_j = -1

\* lines 236-252: one attempt, accepted or rejected
RrcAttempt ==
    /\ pc = "rrc_loop"
    /\ attempt < MaxAttempts
    /\ \E s \in {sq \in ScaleQuarters : scale[1] <= sq /\ sq <= scale[2]},
          q \in {rq \in RatioQuarters : ratio[1] <= rq /\ rq <= ratio[2]} :
          LET area == height * width
              sw == RoundSqrt(s * area * q, 16)
              sh == RoundSqrt(s * area, q)
          IN  /\ rrc_w' = sw
              /\ rrc_h' = sh
              /\ IF 0 < sw /\ sw <= width /\ 0 < sh /\ sh <= height
                   THEN \E ri \in 0..(height - sh), rj \in 0..(width - sw) :
                           /\ rrc_i' = ri
                           /\ rrc_j' = rj
                           /\ crop_height' = sh
                           /\ crop_width' = sw
                           /\ h_start' = StartFraction(ri, height - sh)
                           /\ w_start' = StartFraction(rj, width - sw)
                           /\ draws' = draws + 4
                           /\ pc' = "rrc_returned"
                           /\ UNCHANGED attempt
                   ELSE /\ attempt' = attempt + 1
                        /\ draws' = draws + 2
                        /\ UNCHANGED <<pc, rrc_i, rrc_j, outVars>>
    /\ UNCHANGED <<decVars, benchVars, padVars, gridVars, cropVars, bboxVars, height, width, scale, ratio>>

\* in_ratio > min(self.ratio): the comparison turned around.
BelowRatiosSwapped == 4 * width > Min(ratio[1], ratio[2]) * height

\* in_ratio < min(self.ratio), with in_ratio = width / height
BelowRatios == 4 * width < Min(ratio[1], ratio[2]) * height

\* in_ratio > max(self.ratio)
AboveRatios == 4 * width > Max(ratio[1], ratio[2]) * height

\* lines 254-272: the central crop after ten rejected attempts
RrcFallback ==
    /\ pc = "rrc_loop"
    /\ attempt = MaxAttempts
    /\ LET fw == IF BelowRatios THEN width
                 ELSE IF AboveRatios THEN RoundDiv(height * Max(ratio[1], ratio[2]), 4)
                 ELSE width
           fh == IF BelowRatios THEN RoundDiv(4 * width, Min(ratio[1], ratio[2]))
                 ELSE height
           fi == (height - fh) \div 2
           fj == (width - fw) \div 2
       IN  /\ rrc_w' = fw
           /\ rrc_h' = fh
           /\ rrc_i' = fi
           /\ rrc_j' = fj
           /\ crop_height' = fh
           /\ crop_width' = fw
           /\ h_start' = StartFraction(fi, height - fh)
           /\ w_start' = StartFraction(fj, width - fw)
    /\ pc' = "rrc_returned"
    /\ UNCHANGED <<decVars, benchVars, padVars, gridVars, cropVars, bboxVars, imageVars, scale, ratio, attempt>>

NextRrc == RrcAttempt \/ RrcFallback

SpecRrc == InitRrc /\ [][NextRrc]_vars

FellBack == pc = "rrc_returned" /\ attempt = MaxAttempts

\* C6 as stated: the crop of the fallback path has an aspect ratio w/h inside
\* [ratio_min, ratio_max] and is centered.
FallbackRatioInRange ==
    FellBack =>
        /\ crop_height > 0
        /\ ratio[1] * crop_height <= 4 * crop_width
        /\ 4 * crop_width <= ratio[2] * crop_height
        /\ rrc_i = (height - crop_height) \div 2
        /\ rrc_j = (width - crop_width) \div 2

\* C6, amended: the crop of the fallback path keeps one side of the image and
\* gives the other the integer nearest to what the clamped aspect ratio asks
\* for (w = width and |h - width/ratio_min| <= 1/2 below the range, h = height
\* and |w - height*ratio_max| <= 1/2 above it, the whole image inside it), and
\* it is centered.
FallbackRatioRounded ==
    FellBack =>
        /\ BelowRatios =>
              /\ crop_width = width
              /\ 2 * (ratio[1] * crop_height - 4 * width) <= ratio[1]
              /\ 2 * (4 * width - ratio[1] * crop_height) <= ratio[1]
        /\ AboveRatios =>
              /\ crop_height = height
              /\ 2 * (4 * crop_width - ratio[2] * height) <= 4
              /\ 2 * (ratio[2] * height - 4 * crop_width) <= 4
        /\ (~BelowRatios /\ ~AboveRatios) => crop_width = width /\ crop_height = height
        /\ rrc_i = (height - crop_height) \div 2
        /\ rrc_j = (width - crop_width) \div 2

\* A fallback crop whose rounded side leaves the aspect ratio outside the
\* configured range and an odd slack to centre.
FallbackWitness ==
    /\ FellBack
    /\ BelowRatios
    /\ crop_height > 0
    /\ 4 * crop_width > ratio[2] * crop_height
    /\ (height - crop_height) % 2 = 1

\* C14: the call makes at most ten attempts (two random numbers each, and
\* two more for the offsets of an accepted one) and can always go on until it
\* returns, and the crop it returns, from an accepted attempt or from the
\* fallback, fits the image: crop_height <= height, crop_width <= width,
\* 0 <= i <= height - crop_height and 0 <= j <= width - crop_width, so that
\* h_start and w_start lie in [0, 1]; an accepted crop has positive sides.
CropFitsImage ==
    /\ attempt \in 0..MaxAttempts
    /\ draws <= 2 * MaxAttempts + 2
    /\ pc = "rrc_loop" => ENABLED NextRrc
    /\ pc = "rrc_returned" =>
          /\ crop_height <= height
          /\ crop_width <= width
          /\ 0 <= rrc_i /\ rrc_i <= height - crop_height
          /\ 0 <= rrc_j /\ rrc_j <= width - crop_width
          /\ h_start[1] <= h_start[2]
          /\ w_start[1] <= w_start[2]
          /\ attempt < MaxAttempts => crop_height > 0 /\ crop_width > 0

\* A fallback crop of an image wider than the widest ratio: narrower than the
\* image and moved right to the centre.
CenteredFallbackWitness ==
    /\ FellBack
    /\ AboveRatios
    /\ 0 < crop_width /\ crop_width < width
    /\ rrc_j > 0
    /\ rrc_j + crop_width < width

(***************************************************************************)
(* RandomSizedBBoxSafeCropTorch.get_params_dependent_on_targets            *)
(*                                                                         *)
(* Normalised coordinates are multiples of 1/CoordDen, the values of       *)
(* random.random() multiples of 1/DrawDen below 1, and the expanded box is *)
(* computed exactly, in units of 1/(CoordDen * DrawDen).                   *)
(***************************************************************************)
\* Largest image side of the bbox-safe crops.
MaxBoxSide == 2

CoordDen == 3

DrawDen == 2

\* 1.0 in the units of the expanded box
BoxOne == CoordDen * DrawDen

\* random.random()
RandomDraws == 0..(DrawDen - 1)

\* c * random.random(): the near edge moves toward 0
ExpandDown(c, r) == c * r

\* c + random.random(): a margin that ignores the distance left to the border.
ExpandUpUnscaled(c, r) == c * DrawDen + CoordDen * r

\* c + (1 - c) * random.random(): the far edge moves toward 1
ExpandUp(c, r) == c * DrawDen + (CoordDen - c) * r

\* img_side if extent >= 1.0 else int(img_side * extent)
CropSide(img_side, extent) ==
    IF extent >= BoxOne THEN img_side ELSE (img_side * extent) \div BoxOne

\* np.clip(0.0 if extent >= 1.0 else near / (1.0 - extent), 0.0, 1.0)
ClippedStart(near, extent) ==
    IF extent >= BoxOne THEN <<0, 1>>
    ELSE IF near <= 0 THEN <<0, 1>>
    ELSE IF near >= BoxOne - extent THEN <<1, 1>>
    ELSE <<near, BoxOne - extent>>

InitBbox ==
    /\ pc = "bbox_start"
    /\ DecIdle /\ BenchIdle /\ PadIdle /\ GridIdle /\ CropIdle /\ RrcIdle /\ OutIdle
    /\ height \in 1..MaxBoxSide
    /\ width \in 1..MaxBoxSide
    /\ draws = 0
    /\ erosion_rate \in 0..CoordDen
    /\ \/ bboxes = 0 /\ union = <<>>
       \/ /\ bboxes = 1
          /\ union \in {u \in (0..CoordDen) \X (0..CoordDen) \X (0..CoordDen) \X (0..CoordDen) :
                           u[1] <= u[3] /\ u[2] <= u[4]}
    /\ bbox = <<>>

\* lines 283-291: no boxes, a crop of the image's aspect ratio
BboxNoBoxes ==
    /\ pc = "bbox_start"
    /\ bboxes = 0
    /\ LET erosive_h == (height * (CoordDen - erosion_rate)) \div CoordDen
       IN  \E ch \in (IF erosive_h >= height THEN {height} ELSE erosive_h..height),
              r1 \in RandomDraws, r2 \in RandomDraws :
              /\ crop_height' = ch
              /\ crop_width' = (ch * width) \div height
              /\ h_start' = <<r1, DrawDen>>
              /\ w_start' = <<r2, DrawDen>>
              /\ draws' = draws + (IF erosive_h >= height THEN 2 ELSE 3)
    /\ pc' = "bbox_returned"
    /\ UNCHANGED <<decVars, benchVars, padVars, gridVars, cropVars, rrcVars, bboxVars, height, width>>

\* lines 292-304: the union of the boxes, expanded by four random margins
BboxExpand ==
    /\ pc = "bbox_start"
    /\ bboxes # 0
    /\ \E r1 \in RandomDraws, r2 \in RandomDraws, r3 \in RandomDraws, r4 \in RandomDraws :
          LET bx == ExpandDown(union[1], r1)
              by == ExpandDown(union[2], r2)
              bx2 == ExpandUp(union[3], r3)
              by2 == ExpandUp(union[4], r4)
              bw == bx2 - bx
              bh == by2 - by
          IN  /\ bbox' = <<bx, by, bx2, by2>>
              /\ crop_height' = CropSide(height, bh)
              /\ crop_width' = CropSide(width, bw)
              /\ h_start' = ClippedStart(by, bh)
              /\ w_start' = ClippedStart(bx, bw)
    /\ draws' = draws + 4
    /\ pc' = "bbox_returned"
    /\ UNCHANGED <<decVars, benchVars, padVars, gridVars, cropVars, rrcVars, height, width,
                   bboxes, erosion_rate, union>>

NextBbox == BboxNoBoxes \/ BboxExpand

SpecBbox == InitBbox /\ [][NextBbox]_vars

\* The union box in the units of the expanded box.
UnionScaled == [k \in 1..4 |-> union[k] * DrawDen]

InUnit(frac) == 0 <= frac[1] /\ frac[1] <= frac[2] /\ frac[2] > 0

\* C9: with boxes, the expanded box contains the union box and lies inside
\* [0, 1] on both axes; an extent >= 1 gives the full image side and a start
\* of 0, a smaller extent gives floor(side * extent); so the crop is no larger
\* than the image and h_start and w_start are in [0, 1].
ExpandedBoxSafe ==
    (pc = "bbox_returned" /\ bboxes # 0) =>
        LET bw == bbox[3] - bbox[1]
            bh == bbox[4] - bbox[2]
        IN  /\ 0 <= bbox[1] /\ bbox[1] <= UnionScaled[1]
            /\ 0 <= bbox[2] /\ bbox[2] <= UnionScaled[2]
            /\ UnionScaled[3] <= bbox[3] /\ bbox[3] <= BoxOne
            /\ UnionScaled[4] <= bbox[4] /\ bbox[4] <= BoxOne
            /\ bh >= BoxOne => crop_height = height /\ h_start[1] = 0
            /\ bh < BoxOne => /\ crop_height * BoxOne <= height * bh
                              /\ height * bh < (crop_height + 1) * BoxOne
            /\ bw >= BoxOne => crop_width = width /\ w_start[1] = 0
            /\ bw < BoxOne => /\ crop_width * BoxOne <= width * bw
                              /\ width * bw < (crop_width + 1) * BoxOne
            /\ 0 <= crop_height /\ crop_height <= height
            /\ 0 <= crop_width /\ crop_width <= width
            /\ InUnit(h_start) /\ InUnit(w_start)

\* An expanded box that spans the full height, is narrower than the image,
\* reaches beyond the union box on its right and starts inside (0, 1).
ExpandedBoxWitness ==
    /\ pc = "bbox_returned" /\ bboxes # 0
    /\ bbox[4] - bbox[2] = BoxOne /\ crop_height = height
    /\ bbox[3] - bbox[1] < BoxOne /\ crop_width < width /\ crop_width > 0
    /\ bbox[3] > UnionScaled[3]
    /\ 0 < w_start[1] /\ w_start[1] < w_start[2]

(***************************************************************************)
(* augmentations/utils.py: the rank-adapting decorators on_4d_image and    *)
(* on_3d_image.  A tensor is its shape and its dtype; the wrapped function *)
(* is any function: it may return a tensor of any rank, shape and dtype.   *)
(***************************************************************************)
\* Largest rank of the tensors given to and returned by the functions.
MaxRank == 4

\* Sizes of a dimension.
DimSizes == {1, 2}

Dtypes == {"uint8", "float32"}

ShapesOfRank(r) == [1..r -> DimSizes]

Tensors == {[shape |-> sh, dtype |-> dt] :
               sh \in UNION {ShapesOfRank(r) : r \in 1..MaxRank}, dt \in Dtypes}

Rank(t) == Len(t.shape)

RECURSIVE Numel(_)
\* the number of elements of a shape
Numel(sh) == IF sh = <<>> THEN 1 ELSE Head(sh) * Numel(Tail(sh))

\* shape[1:]: the first dimension dropped whatever the rank of the input was.
DropFirstDim(sh, k) == Tail(sh)

\* shape[-k:], the whole shape when it has fewer than k dimensions
LastDims(sh, k) == IF Len(sh) <= k THEN sh ELSE SubSeq(sh, Len(sh) - k + 1, Len(sh))

\* img.view(1, 1, *img.shape) below rank 3, img.view(1, *img.shape) below rank 4
Expand4d(sh) ==
    IF Len(sh) < 3 THEN <<1, 1>> \o sh
    ELSE IF Len(sh) < 4 THEN <<1>> \o sh
    ELSE sh

\* img.view(1, *img.shape) below rank 3
Expand3d(sh) == IF Len(sh) < 3 THEN <<1>> \o sh ELSE sh

InitDec ==
    /\ pc = "dec_enter"
    /\ BenchIdle /\ PadIdle /\ ImageIdle /\ GridIdle /\ CropIdle /\ RrcIdle /\ OutIdle /\ BboxIdle
    /\ decorator \in {"on_4d_image", "on_3d_image"}
    /\ dec_dtype \in (IF decorator = "on_4d_image" THEN {"None"} \cup Dtypes ELSE {"None"})
    /\ img \in Tensors
    /\ called_with = <<>> /\ func_out = <<>> /\ result = <<>>

\* lines 94-104: the cast, the added dimensions and the call of func, which
\* returns some tensor
on_4d_image ==
    /\ pc = "dec_enter"
    /\ decorator = "on_4d_image"
    /\ called_with' = [shape |-> Expand4d(img.shape),
                       dtype |-> IF dec_dtype # "None" THEN dec_dtype ELSE img.dtype]
    /\ \E t \in Tensors : func_out' = t
    /\ pc' = "dec_called"
    /\ UNCHANGED <<padVars, imageVars, gridVars, cropVars, rrcVars, outVars, bboxVars,
                   benchVars, decorator, dec_dtype, img, result>>

\* lines 134-137: the added dimension and the call of func
on_3d_image ==
    /\ pc = "dec_enter"
    /\ decorator = "on_3d_image"
    /\ called_with' = [shape |-> Expand3d(img.shape), dtype |-> img.dtype]
    /\ \E t \in Tensors : func_out' = t
    /\ pc' = "dec_called"
    /\ UNCHANGED <<padVars, imageVars, gridVars, cropVars, rrcVars, outVars, bboxVars,
                   benchVars, decorator, dec_dtype, img, result>>

\* lines 105-110 and 138-139: result.view(*result.shape[-shape_len:]), which
\* raises when the new shape has another number of elements, and for
\* on_4d_image the cast back to the dtype of the input
wrapped_return ==
    /\ pc = "dec_called"
    /\ LET shape_len == Rank(img)
           viewed == LastDims(func_out.shape, shape_len)
       IN  IF Numel(viewed) # Numel(func_out.shape)
             THEN pc' = "dec_raised" /\ UNCHANGED result
             ELSE /\ result' = [shape |-> viewed,
                                dtype |-> IF decorator = "on_4d_image"
                                            THEN img.dtype ELSE func_out.dtype]
                  /\ pc' = "dec_returned"
    /\ UNCHANGED <<padVars, imageVars, gridVars, cropVars, rrcVars, outVars, bboxVars,
                   benchVars, decorator, dec_dtype, img, called_with, func_out>>

NextDec == on_4d_image \/ on_3d_image \/ wrapped_return

SpecDec == InitDec /\ [][NextDec]_vars

\* The ranks the decorator is meant for.
RankInRange ==
    IF decorator = "on_4d_image" THEN Rank(img) \in {2, 3, 4} ELSE Rank(img) \in {2, 3}

Added == Rank(called_with) - Rank(img)

\* The wrapped function returned a tensor of the rank it received whose added
\* leading dimensions are still of size 1.
FuncKeepsRank ==
    /\ Rank(func_out) = Rank(called_with)
    /\ \A k \in 1..Added : func_out.shape[k] = 1

\* C11: for an input of rank 2, 3 or 4 (on_4d_image) or 2 or 3 (on_3d_image)
\* the wrapped function is called with a tensor of rank 4 (resp. 3) that is
\* the input with leading dimensions of size 1 added; when it returns a tensor
\* of that rank whose added dimensions are still 1, the decorated call raises
\* nothing and returns a tensor of the rank of the input, and with on_4d_image
\* of the dtype of the input.
RankRestored ==
    (pc \in {"dec_called", "dec_returned", "dec_raised"} /\ RankInRange) =>
        /\ Rank(called_with) = (IF decorator = "on_4d_image" THEN 4 ELSE 3)
        /\ \A k \in 1..Added : called_with.shape[k] = 1
        /\ \A k \in 1..Rank(img) : called_with.shape[Added + k] = img.shape[k]
        /\ FuncKeepsRank =>
              /\ pc # "dec_raised"
              /\ pc = "dec_returned" =>
                    /\ Rank(result) = Rank(img)
                    /\ \A k \in 1..Rank(img) : result.shape[k] = func_out.shape[Added + k]
                    /\ decorator = "on_4d_image" => result.dtype = img.dtype

\* A rank-2 uint8 image given to a function decorated with
\* on_4d_image(float32), which returned a rank-4 float32 tensor of another
\* size; the call returned a rank-2 uint8 tensor.
RankRestoredWitness ==
    /\ pc = "dec_returned"
    /\ decorator = "on_4d_image" /\ dec_dtype = "float32"
    /\ Rank(img) = 2 /\ img.dtype = "uint8"
    /\ FuncKeepsRank
    /\ func_out.dtype = "float32" /\ func_out.shape # called_with.shape
    /\ Rank(result) = 2 /\ result.dtype = "uint8"

(***************************************************************************)
(* utils/gpu_benchmark.py: gpu_benchmark, from the normalisation of the    *)
(* iterations argument to the returned results.  A shape is an opaque      *)
(* value; _bench(n, ...) runs the transform n times and returns n over the *)
(* elapsed time, of which a results record keeps the n.                    *)
(***************************************************************************)
\* Largest number of shapes.
MaxShapes == 3

\* Largest length of an iterations list.
MaxIterationsLen == 3

\* Largest number of iterations.
MaxIterations == 2

ShapeIds == {"a", "b"}

Lists(S, k) == UNION {[1..l -> S] : l \in 0..k}

IntArg(k) == [is_int |-> TRUE, value |-> k, list |-> <<>>]

ListArg(l) == [is_int |-> FALSE, value |-> 0, list |-> l]

\* [v] * k
Repeat(v, k) == [i \in 1..k |-> v]

InitBench ==
    /\ pc = "bench_start"
    /\ DecIdle /\ PadIdle /\ ImageIdle /\ GridIdle /\ CropIdle /\ RrcIdle /\ OutIdle /\ BboxIdle
    /\ shapes \in Lists(ShapeIds, MaxShapes)
    /\ iterations_arg \in {IntArg(k) : k \in 1..MaxIterations}
                          \cup {ListArg(l) : l \in Lists(1..MaxIterations, MaxIterationsLen)}
    /\ iterations = <<>>
    /\ results = <<>>

\* lines 128-129: an int has no __len__, and list(iterations) of an int raises
\* TypeError
bench_int ==
    /\ pc = "bench_start"
    /\ iterations_arg.is_int
    /\ pc' = "bench_raised"
    /\ UNCHANGED <<padVars, imageVars, gridVars, cropVars, rrcVars, outVars, bboxVars,
                   decVars, benchVars>>

\* lines 130-134: a list shorter than shapes is extended by its last value,
\* iterations[-1] of an empty list raises IndexError; any other list is kept
bench_list ==
    /\ pc = "bench_start"
    /\ ~iterations_arg.is_int
    /\ LET given == iterations_arg.list
       IN  IF Len(given) < Len(shapes)
             THEN IF given = <<>>
                    THEN pc' = "bench_raised" /\ UNCHANGED iterations
                    ELSE /\ iterations' = given \o Repeat(given[Len(given)],
                                                          Len(shapes) - Len(given))
                         /\ pc' = "bench_loop"
             ELSE iterations' = given /\ pc' = "bench_loop"
    /\ results' = <<>>
    /\ UNCHANGED <<padVars, imageVars, gridVars, cropVars, rrcVars, outVars, bboxVars,
                   decVars, shapes, iterations_arg>>

\* lines 136-167: one turn of for n, shape in zip(iterations, shapes)
bench_shape ==
    /\ pc = "bench_loop"
    /\ Len(results) < Min(Len(iterations), Len(shapes))
    /\ LET k == Len(results) + 1
       IN  results' = Append(results, [shape |-> shapes[k],
                                       cpu_runs |-> iterations[k],
                                       gpu_runs |-> iterations[k]])
    /\ UNCHANGED <<pc, padVars, imageVars, gridVars, cropVars, rrcVars, outVars, bboxVars,
                   decVars, shapes, iterations_arg, iterations>>

\* lines 169-174: the end of zip and return results
bench_return ==
    /\ pc = "bench_loop"
    /\ Len(results) = Min(Len(iterations), Len(shapes))
    /\ pc' = "bench_returned"
    /\ UNCHANGED <<padVars, imageVars, gridVars, cropVars, rrcVars, outVars, bboxVars,
                   decVars, benchVars>>

NextBench == bench_int \/ bench_list \/ bench_shape \/ bench_return

SpecBench == InitBench /\ [][NextBench]_vars

\* The iteration count the docstring (lines 76-88) gives the i-th shape.
DocumentedCount(i) ==
    IF iterations_arg.is_int THEN iterations_arg.value
    ELSE iterations_arg.list[Min(i, Len(iterations_arg.list))]

\* C12: given an int or a (non-empty) list as iterations, gpu_benchmark
\* raises nothing and returns one result per shape, in the order of shapes,
\* the i-th shape run with the int, or with the i-th value of the list, the
\* last value repeated for the shapes beyond the list.
BenchmarksEveryShape ==
    (/\ pc \in {"bench_returned", "bench_raised"}
     /\ iterations_arg.is_int \/ iterations_arg.list # <<>>) =>
        /\ pc = "bench_returned"
        /\ Len(results) = Len(shapes)
        /\ \A i \in 1..Len(shapes) :
              /\ results[i].shape = shapes[i]
              /\ results[i].cpu_runs = DocumentedCount(i)
              /\ results[i].gpu_runs = DocumentedCount(i)

=============================================================================
